---- MODULE Spec2Model ----
(***************************************************************************)
(* Model of forge.agents: the AgentOrchestrator's task execution           *)
(* (execute_task_async, execute_parallel) and the TaskDispatcher.          *)
(***************************************************************************)
EXTENDS Integers, Sequences, FiniteSets, TLC

\* ------------------------------------------------------------------ bounds
MaxBatch == 3
MaxParallel == 2

\* Task ids are interchangeable strings; three Task objects exist.
TaskIds == {"A", "B", "C"}

\* AgentType of each Task object (the three pools decompose_task assigns).
AgentOf(t) ==
  CASE t = "A" -> "lead-architect"
    [] t = "B" -> "backend-master"
    [] OTHER   -> "qa-sentinel"

Agents == {AgentOf(t) : t \in TaskIds}

NoTime == 0
NoResult == [kind |-> "none", task |-> "none"]

VARIABLES
  orchestration_enabled,  \* self.orchestration_enabled
  max_parallel,           \* self.max_parallel
  learning_enabled,       \* self.learning_enabled
  agent_callbacks,        \* agents with a registered callback
  tasks,                  \* the Task objects, by id
  completed_tasks,        \* self.completed_tasks
  interaction_log,        \* self.interaction_log
  now,                    \* logical clock behind datetime.utcnow()
  batch,                  \* the list passed to execute_parallel
  batch_state,            \* "idle" | "running" | "returned" | "raised"
  pc,                     \* position of each coroutine of the batch
  sem_value,              \* asyncio.Semaphore._value
  sem_waiters,            \* asyncio.Semaphore._waiters (FIFO)
  raw_results,            \* what each coroutine returned or raised
  callback,               \* each coroutine's local `callback`: the agent it belongs to
  final_results,          \* the list execute_parallel returns
  active_tasks,           \* keys of self.active_tasks (tasks holds the values)
  o_awaiting,             \* tasks whose callback a direct execute_task_async awaits
  o_last,                 \* the last direct orchestrator call and how it ended
  message_queue,          \* self.message_queue (asyncio.Queue)
  sent,                   \* every message put on the queue, in the order of the puts
  drain,                  \* the process_messages call: its locals and what it returned
  returned,               \* the lists returned by process_messages, concatenated
  routed,                 \* the task given to assign_agent and the agent returned
  assignments,            \* what every assign_agent call was given and returned
  agents,                 \* keys of self.agents, the table of capability pools
  d_tasks,                \* TaskDispatcher.tasks: the active set, by id
  d_history,              \* TaskDispatcher.task_history
  d_now,                  \* logical clock of the dispatcher's timestamps
  d_last                  \* the last dispatcher call and what it returned

ovars == <<orchestration_enabled, max_parallel, learning_enabled, agent_callbacks,
           tasks, completed_tasks, interaction_log, now, batch, batch_state, pc,
           sem_value, sem_waiters, raw_results, final_results, callback,
           active_tasks, o_awaiting, o_last,
           message_queue, sent, drain, returned, routed, assignments, agents>>

dvars == <<d_tasks, d_history, d_now, d_last>>

vars == <<ovars, dvars>>

\* ------------------------------------------------------------ Task model
NewTask(t, deps) ==
  [id |-> t, description |-> <<>>, type |-> <<>>, assigned_agent |-> AgentOf(t),
   status |-> "pending", dependencies |-> deps, started_at |-> NoTime,
   completed_at |-> NoTime, result |-> NoResult, messages |-> <<>>]

can_start(task, completed) ==
  \A dep_id \in task.dependencies : dep_id \in completed

Positions == 1..Len(batch)

\* Batches up to renaming of the ids: a new id appears in alphabetical order.
Canonical(b) ==
  \A i \in 1..Len(b) :
    /\ b[i] = "B" => \E j \in 1..(i-1) : b[j] = "A"
    /\ b[i] = "C" => \E j \in 1..(i-1) : b[j] = "B"

Batches ==
  {b \in UNION {[1..n -> TaskIds] : n \in 1..MaxBatch} : Canonical(b)}

\* ---------------------------------------------------- execute_task_async
HasCallback(t) == tasks[t].assigned_agent \in agent_callbacks

OkResult(t) == [kind |-> "ok", task |-> t]
ErrResult(t) == [kind |-> "error", task |-> t]

\* lines 394-395
TaskStarted(ts, t, time) ==
  [ts EXCEPT ![t].status = "in_progress", ![t].started_at = time]

\* lines 413-415
TaskCompleted(ts, t, time) ==
  [ts EXCEPT ![t].status = "completed", ![t].completed_at = time,
             ![t].result = OkResult(t)]

\* lines 427-428
TaskFailed(ts, t) ==
  [ts EXCEPT ![t].status = "failed", ![t].result = ErrResult(t)]

\* line 417
CompletedAfter(t) == completed_tasks \cup {t}

\* _log_interaction, lines 581-592
Interaction(task) ==
  [task_id |-> task.id, agent |-> task.assigned_agent, status |-> task.status,
   duration |-> task.completed_at - task.started_at,
   success |-> (task.status = "completed")]

LogAfter(ts, t) ==
  IF learning_enabled THEN Append(interaction_log, Interaction(ts[t]))
  ELSE interaction_log

\* ------------------------------------------------------------------ Init
NoDrain == [state |-> "idle", timeout |-> "none", messages |-> <<>>, at_call |-> <<>>]
NoRoute == [description |-> <<>>, type |-> <<>>, agent |-> "none"]

\* The built-in table of six pools, lines 178-209.
BuiltinAgents ==
  {"lead-architect", "backend-master", "cli-artisan", "platform-builder",
   "integration-specialist", "qa-sentinel"}

\* The message queue is empty and nothing was routed.
Quiet ==
  /\ message_queue = <<>>
  /\ sent = <<>>
  /\ drain = NoDrain
  /\ returned = <<>>
  /\ routed = NoRoute
  /\ assignments = {}
  /\ agents = BuiltinAgents

Init ==
  /\ orchestration_enabled \in BOOLEAN
  /\ max_parallel \in 1..MaxParallel
  /\ learning_enabled \in BOOLEAN
  /\ agent_callbacks \in SUBSET Agents
  /\ tasks = [t \in TaskIds |-> NewTask(t, {})]
  /\ completed_tasks = {}
  /\ interaction_log = <<>>
  /\ now = 0
  /\ batch = <<>>
  /\ batch_state = "idle"
  /\ pc = <<>>
  /\ sem_value = 0
  /\ sem_waiters = <<>>
  /\ raw_results = <<>>
  /\ final_results = <<>>
  /\ callback = <<>>
  /\ active_tasks = {}
  /\ o_awaiting = {}
  /\ o_last = [op |-> "none", id |-> "none", ret |-> "none"]
  /\ Quiet
  /\ d_tasks = <<>>
  /\ d_history = <<>>
  /\ d_now = 0
  /\ d_last = [op |-> "none", id |-> "none", ret |-> "none"]

\* ------------------------------------------------------ execute_parallel
\* The dependency lists the caller may give the Task objects of batch b.
RangeOf(b) == {b[i] : i \in 1..Len(b)}

DepChoices(b) ==
  {d \in [TaskIds -> SUBSET TaskIds] :
     \A t \in TaskIds : IF t \in RangeOf(b) THEN t \notin d[t] ELSE d[t] = {}}

\* A semaphore created with one slot too many.
SemaphoreSlotsOffByOne == max_parallel + 1

\* asyncio.Semaphore(self.max_parallel), line 451.
SemaphoreSlots == max_parallel

\* The caller builds the Task objects of the batch and calls execute_parallel:
\* lines 442-451 and the creation of the coroutines (463).
StartBatch(b, deps) ==
  /\ batch_state = "idle"
  /\ tasks' = [t \in TaskIds |-> NewTask(t, deps[t])]
  /\ batch' = b
  /\ batch_state' = "running"
  /\ pc' = [i \in 1..Len(b) |-> "created"]
  /\ raw_results' = [i \in 1..Len(b) |-> NoResult]
  /\ callback' = [i \in 1..Len(b) |-> "none"]
  /\ sem_value' = IF orchestration_enabled THEN SemaphoreSlots ELSE 0
  /\ sem_waiters' = <<>>
  /\ UNCHANGED <<orchestration_enabled, max_parallel, learning_enabled,
                 agent_callbacks, completed_tasks, interaction_log, now,
                 final_results, active_tasks, o_awaiting, o_last,
                 message_queue, sent, drain, returned, routed, assignments,
                 agents, dvars>>

config == <<orchestration_enabled, max_parallel, learning_enabled, agent_callbacks,
            active_tasks, o_awaiting, o_last,
            message_queue, sent, drain, returned, routed, assignments, agents,
            dvars>>

\* A lookup that takes the callback of the agent the task was built with.
CallbackOfFirstAgent(t) == AgentOf(t)

\* self.agent_callbacks.get(task.assigned_agent), lines 402-404: the callback
\* of the agent the task is assigned to when it is executed.
Callback(t) == tasks[t].assigned_agent

\* An execution that gives its slot back as soon as the callback is started,
\* without awaiting it.
ExecuteNoAwait(i, held) ==
  LET t == batch[i] IN
  /\ tasks' = TaskStarted(tasks, t, now + 1)
  /\ now' = now + 1
  /\ pc' = [pc EXCEPT ![i] = "running"]
  /\ sem_value' = IF orchestration_enabled THEN held + 1 ELSE held
  /\ callback' = [callback EXCEPT ![i] = Callback(t)]
  /\ UNCHANGED <<completed_tasks, interaction_log, raw_results>>

\* execute_task_async up to its await (or to its end when no callback is
\* registered), run by the coroutine at position i that holds a slot.
\* `held` is the semaphore value while the coroutine holds its slot.
Execute(i, held) ==
  LET t == batch[i] IN
  IF HasCallback(t)
  THEN /\ tasks' = TaskStarted(tasks, t, now + 1)
       /\ now' = now + 1
       /\ pc' = [pc EXCEPT ![i] = "running"]
       /\ sem_value' = held
       /\ callback' = [callback EXCEPT ![i] = Callback(t)]
       /\ UNCHANGED <<completed_tasks, interaction_log, raw_results>>
  ELSE LET done == TaskCompleted(TaskStarted(tasks, t, now + 1), t, now + 2) IN
       /\ tasks' = done
       /\ now' = now + 2
       /\ completed_tasks' = CompletedAfter(t)
       /\ interaction_log' = LogAfter(done, t)
       /\ raw_results' = [raw_results EXCEPT ![i] = OkResult(t)]
       /\ pc' = [pc EXCEPT ![i] = "done"]
       /\ sem_value' = IF orchestration_enabled THEN held + 1 ELSE held
       /\ UNCHANGED callback

\* execute_with_semaphore after the slot is acquired: lines 456-459.
Gate(i, held) ==
  IF can_start(tasks[batch[i]], completed_tasks)
  THEN Execute(i, held)
  ELSE /\ pc' = [pc EXCEPT ![i] = "wait_deps"]
       /\ sem_value' = held
       /\ UNCHANGED <<tasks, now, completed_tasks, interaction_log, raw_results,
                      callback>>

\* A coroutine's first run (gather starts them in input order): line 454.
CoStart(i) ==
  /\ batch_state = "running" /\ orchestration_enabled
  /\ pc[i] = "created"
  /\ \A j \in 1..(i-1) : pc[j] # "created"
  /\ IF sem_value = 0 \/ sem_waiters # <<>>
     THEN /\ pc' = [pc EXCEPT ![i] = "wait_sem"]
          /\ sem_waiters' = Append(sem_waiters, i)
          /\ UNCHANGED <<tasks, now, completed_tasks, interaction_log,
                         raw_results, sem_value, callback>>
     ELSE /\ Gate(i, sem_value - 1)
          /\ UNCHANGED sem_waiters
  /\ UNCHANGED <<config, batch, batch_state, final_results>>

\* The first waiter is woken by a release and takes the slot.
CoResume(i) ==
  /\ batch_state = "running" /\ orchestration_enabled
  /\ pc[i] = "wait_sem"
  /\ sem_value > 0
  /\ sem_waiters # <<>> /\ Head(sem_waiters) = i
  /\ sem_waiters' = Tail(sem_waiters)
  /\ Gate(i, sem_value - 1)
  /\ UNCHANGED <<config, batch, batch_state, final_results>>

\* The dependency poll: asyncio.sleep(0.1) returns and can_start is re-read.
CoPoll(i) ==
  /\ batch_state = "running" /\ orchestration_enabled
  /\ pc[i] = "wait_deps"
  /\ Gate(i, sem_value)
  /\ UNCHANGED <<config, batch, batch_state, final_results, sem_waiters>>

\* The awaited callback returns: lines 413-423, then the slot is released.
CallbackReturns(i) ==
  LET t == batch[i]
      done == TaskCompleted(tasks, t, now + 1) IN
  /\ batch_state = "running" /\ orchestration_enabled
  /\ pc[i] = "running"
  /\ tasks' = done
  /\ now' = now + 1
  /\ completed_tasks' = CompletedAfter(t)
  /\ interaction_log' = LogAfter(done, t)
  /\ raw_results' = [raw_results EXCEPT ![i] = OkResult(t)]
  /\ pc' = [pc EXCEPT ![i] = "done"]
  /\ sem_value' = sem_value + 1
  /\ UNCHANGED <<config, batch, batch_state, final_results, sem_waiters, callback>>

\* The awaited callback raises: lines 425-429, then the slot is released
\* and gather keeps the exception (return_exceptions=True).
CallbackRaises(i) ==
  LET t == batch[i] IN
  /\ batch_state = "running" /\ orchestration_enabled
  /\ pc[i] = "running"
  /\ tasks' = TaskFailed(tasks, t)
  /\ raw_results' = [raw_results EXCEPT ![i] = ErrResult(t)]
  /\ pc' = [pc EXCEPT ![i] = "done"]
  /\ sem_value' = sem_value + 1
  /\ UNCHANGED <<config, batch, batch_state, final_results, sem_waiters, now,
                 completed_tasks, interaction_log, callback>>

\* lines 468-474: an exception becomes {"error": ..., "status": "failed"}.
FinalEntry(raw) ==
  IF raw.kind = "error" THEN [kind |-> "failed", task |-> raw.task] ELSE raw

IsReturned(raw) == raw.kind # "error"

\* A conversion that filters the exceptions out instead of converting them.
GatherResultsFiltered == SelectSeq(raw_results, IsReturned)

GatherResults == [i \in Positions |-> FinalEntry(raw_results[i])]

\* gather is done: lines 462-476.
GatherReturn ==
  /\ batch_state = "running" /\ orchestration_enabled
  /\ \A i \in Positions : pc[i] = "done"
  /\ final_results' = GatherResults
  /\ batch_state' = "returned"
  /\ UNCHANGED <<config, tasks, completed_tasks, interaction_log, now, batch, pc,
                 sem_value, sem_waiters, raw_results, callback>>

\* ---------------------------------- execute_parallel, sequential branch
\* A loop that starts the next task without awaiting the previous one.
SeqTurnNoAwait(i) == \A j \in 1..(i-1) : pc[j] # "created"

\* The loop reaches task i when every earlier await has returned: lines 445-447.
SeqTurn(i) == \A j \in 1..(i-1) : pc[j] = "done"

\* One iteration of the loop of lines 445-447 up to the await.
SeqStep(i) ==
  /\ batch_state = "running" /\ ~orchestration_enabled
  /\ pc[i] = "created"
  /\ SeqTurn(i)
  /\ Execute(i, sem_value)
  /\ UNCHANGED <<config, batch, batch_state, final_results, sem_waiters>>

SeqCallbackReturns(i) ==
  LET t == batch[i]
      done == TaskCompleted(tasks, t, now + 1) IN
  /\ batch_state = "running" /\ ~orchestration_enabled
  /\ pc[i] = "running"
  /\ tasks' = done
  /\ now' = now + 1
  /\ completed_tasks' = CompletedAfter(t)
  /\ interaction_log' = LogAfter(done, t)
  /\ raw_results' = [raw_results EXCEPT ![i] = OkResult(t)]
  /\ pc' = [pc EXCEPT ![i] = "done"]
  /\ UNCHANGED <<config, batch, batch_state, final_results, sem_value, sem_waiters,
                 callback>>

\* The exception of line 429 leaves the loop and execute_parallel.
SeqCallbackRaises(i) ==
  LET t == batch[i] IN
  /\ batch_state = "running" /\ ~orchestration_enabled
  /\ pc[i] = "running"
  /\ tasks' = TaskFailed(tasks, t)
  /\ raw_results' = [raw_results EXCEPT ![i] = ErrResult(t)]
  /\ pc' = [pc EXCEPT ![i] = "done"]
  /\ batch_state' = "raised"
  /\ UNCHANGED <<config, batch, final_results, sem_value, sem_waiters, now,
                 completed_tasks, interaction_log, callback>>

\* line 448
SeqReturn ==
  /\ batch_state = "running" /\ ~orchestration_enabled
  /\ \A i \in Positions : pc[i] = "done"
  /\ final_results' = [i \in Positions |-> raw_results[i]]
  /\ batch_state' = "returned"
  /\ UNCHANGED <<config, tasks, completed_tasks, interaction_log, now, batch, pc,
                 sem_value, sem_waiters, raw_results, callback>>

\* ------------------------------------------------------------------ Spec
Next ==
  \/ /\ batch_state = "idle"
     /\ \E b \in Batches : \E deps \in DepChoices(b) : StartBatch(b, deps)
  \/ \E i \in Positions : CoStart(i)
  \/ \E i \in Positions : CoResume(i)
  \/ \E i \in Positions : CoPoll(i)
  \/ \E i \in Positions : CallbackReturns(i)
  \/ \E i \in Positions : CallbackRaises(i)
  \/ GatherReturn
  \/ \E i \in Positions : SeqStep(i)
  \/ \E i \in Positions : SeqCallbackReturns(i)
  \/ \E i \in Positions : SeqCallbackRaises(i)
  \/ SeqReturn

Spec == Init /\ [][Next]_vars

\* The event loop runs every coroutine that is ready, and callbacks terminate.
BatchStep ==
  \/ \E i \in Positions : CoStart(i) \/ CoResume(i) \/ CoPoll(i)
  \/ \E i \in Positions : CallbackReturns(i) \/ CallbackRaises(i)
  \/ GatherReturn
  \/ \E i \in Positions : SeqStep(i) \/ SeqCallbackReturns(i) \/ SeqCallbackRaises(i)
  \/ SeqReturn

FairSpec == Spec /\ WF_vars(BatchStep)

\* ------------------------------------ AgentOrchestrator, called directly
MaxClock == 3

Statuses == {"pending", "in_progress", "completed", "failed"}
TaskTypes == {"feature", "bugfix"}

OCall(op, id, ret) == [op |-> op, id |-> id, ret |-> ret]

OrchestratorInit ==
  /\ orchestration_enabled = TRUE
  /\ max_parallel = 1
  /\ learning_enabled = FALSE
  /\ agent_callbacks \in SUBSET Agents
  /\ tasks = [t \in TaskIds |-> NewTask(t, {})]
  /\ completed_tasks = {}
  /\ interaction_log = <<>>
  /\ now = 0
  /\ batch = <<>>
  /\ batch_state = "idle"
  /\ pc = <<>>
  /\ sem_value = 0
  /\ sem_waiters = <<>>
  /\ raw_results = <<>>
  /\ final_results = <<>>
  /\ callback = <<>>
  /\ active_tasks = {}
  /\ o_awaiting = {}
  /\ o_last = [op |-> "none", id |-> "none", ret |-> "none"]
  /\ Quiet
  /\ d_tasks = <<>>
  /\ d_history = <<>>
  /\ d_now = 0
  /\ d_last = [op |-> "none", id |-> "none", ret |-> "none"]

batchvars == <<batch, batch_state, pc, sem_value, sem_waiters, raw_results,
               final_results, callback>>

fixed == <<orchestration_enabled, max_parallel, learning_enabled, agent_callbacks,
           batchvars, message_queue, sent, drain, returned, routed, assignments,
           agents, dvars>>

\* The subtasks of a feature: "A" is <id>-arch, "B" is <id>-impl (after arch),
\* "C" is <id>-test (after impl); lines 655-682.
SubtaskDependencies(t) ==
  CASE t = "A" -> {}
    [] t = "B" -> {"A"}
    [] OTHER   -> {"B"}

Subtask(t) == NewTask(t, SubtaskDependencies(t))

\* decompose_task(task), called while no execution is in flight: the subtasks
\* of a feature are stored under their ids, whatever is stored there already.
decompose_task(type) ==
  /\ o_awaiting = {}
  /\ IF type = "feature"
     THEN /\ tasks' = [t \in TaskIds |-> Subtask(t)]
          /\ active_tasks' = active_tasks \cup TaskIds
     ELSE UNCHANGED <<tasks, active_tasks>>
  /\ o_last' = OCall("decompose_task", type, "returned")
  /\ UNCHANGED <<fixed, completed_tasks, interaction_log, now, o_awaiting>>

\* update_task_status(task_id, status): lines 360-364.
update_task_status(t, status) ==
  /\ IF t \in active_tasks
     THEN /\ tasks' = [tasks EXCEPT ![t].status = status]
          /\ o_last' = OCall("update_task_status", t, "task")
     ELSE /\ o_last' = OCall("update_task_status", t, "None")
          /\ UNCHANGED tasks
  /\ UNCHANGED <<fixed, active_tasks, completed_tasks, interaction_log, now,
                 o_awaiting>>

\* execute_task_async(task) on a task taken from active_tasks, up to its
\* await, or to its end when no callback is registered: lines 394-423.
execute_task_async(t) ==
  /\ t \in active_tasks /\ t \notin o_awaiting
  /\ now < MaxClock
  /\ IF HasCallback(t)
     THEN /\ tasks' = TaskStarted(tasks, t, now + 1)
          /\ now' = now + 1
          /\ o_awaiting' = o_awaiting \cup {t}
          /\ o_last' = OCall("execute_task_async", t, "awaiting")
          /\ UNCHANGED <<completed_tasks, interaction_log>>
     ELSE LET done == TaskCompleted(TaskStarted(tasks, t, now + 1), t, now + 2) IN
          /\ tasks' = done
          /\ now' = now + 2
          /\ completed_tasks' = CompletedAfter(t)
          /\ interaction_log' = LogAfter(done, t)
          /\ o_last' = OCall("execute_task_async", t, "returned")
          /\ UNCHANGED o_awaiting
  /\ UNCHANGED <<fixed, active_tasks>>

\* The awaited callback returns: lines 413-423.
AwaitReturns(t) ==
  LET done == TaskCompleted(tasks, t, now + 1) IN
  /\ t \in o_awaiting
  /\ tasks' = done
  /\ now' = now + 1
  /\ completed_tasks' = CompletedAfter(t)
  /\ interaction_log' = LogAfter(done, t)
  /\ o_awaiting' = o_awaiting \ {t}
  /\ o_last' = OCall("execute_task_async", t, "returned")
  /\ UNCHANGED <<fixed, active_tasks>>

\* The awaited callback raises: lines 425-429, the exception is raised again.
AwaitRaises(t) ==
  /\ t \in o_awaiting
  /\ tasks' = TaskFailed(tasks, t)
  /\ o_awaiting' = o_awaiting \ {t}
  /\ o_last' = OCall("execute_task_async", t, "raised")
  /\ UNCHANGED <<fixed, active_tasks, completed_tasks, interaction_log, now>>

OrchestratorNext ==
  \/ \E type \in TaskTypes : decompose_task(type)
  \/ \E t \in TaskIds, status \in Statuses : update_task_status(t, status)
  \/ \E t \in TaskIds : execute_task_async(t)
  \/ \E t \in TaskIds : AwaitReturns(t)
  \/ \E t \in TaskIds : AwaitRaises(t)

SpecOrchestrator == OrchestratorInit /\ [][OrchestratorNext]_vars

\* ----------------------------------- send_message and process_messages
MaxMessages == 2

MessageTypes == {"handoff", "query", "result", "status", "error"}

\* process_messages(timeout): None, 0, or a positive number of seconds.
Timeouts == {"none", "zero", "positive"}

\* What content holds under "task_id": nothing, a string, or a number.
Absent == [kind |-> "absent", value |-> ""]
Str(x) == [kind |-> "str", value |-> x]
NotAString == [kind |-> "int", value |-> "42"]

Contents == {Str("A"), Str("B"), Str(""), Absent, NotAString}

\* AgentMessage; message_id is unique per message.
AgentMessage(n, to, type, content) ==
  [message_id |-> n, from_agent |-> "lead-architect", to_agent |-> to,
   message_type |-> type, content |-> content]

\* A queue that hands out the newest message first.
QueuePutFront(q, message) == <<message>> \o q

\* asyncio.Queue.put: the message goes to the end of the queue.
QueuePut(q, message) == Append(q, message)

nobus == <<orchestration_enabled, max_parallel, learning_enabled, agent_callbacks,
           batchvars, dvars, routed, assignments, agents, active_tasks, o_awaiting,
           o_last, completed_tasks, interaction_log, now>>

\* send_message: lines 497-508.
send_message(to, type, content) ==
  LET message == AgentMessage(Len(sent) + 1, to, type, content) IN
  /\ Len(sent) < MaxMessages
  /\ message_queue' = QueuePut(message_queue, message)
  /\ sent' = Append(sent, message)
  /\ UNCHANGED <<nobus, tasks, drain, returned>>

\* process_messages is called (by the one coroutine that drains): lines 521-522.
process_messages(timeout) ==
  /\ drain.state # "running"
  /\ drain' = [state |-> "running", timeout |-> timeout, messages |-> <<>>,
               at_call |-> message_queue]
  /\ UNCHANGED <<nobus, tasks, message_queue, sent, returned>>

\* message.content.get("task_id", ""), line 552.
task_id(message) ==
  IF message.content.kind = "absent" THEN Str("") ELSE message.content

\* not task_id or not isinstance(task_id, str), line 553.
Invalid(v) == (v.kind = "str" /\ v.value = "") \/ v.kind # "str"

\* A lookup that takes any Task with that id, stored in active_tasks or not.
HandoffTargetUnchecked(message) ==
  IF Invalid(task_id(message)) THEN {}
  ELSE {t \in TaskIds : t = task_id(message).value}

\* self.active_tasks.get(task_id), lines 557-559: the task to hand off, if any.
HandoffTarget(message) ==
  IF Invalid(task_id(message)) THEN {}
  ELSE {t \in active_tasks : t = task_id(message).value}

\* A handoff that reassigns the task and keeps no record of the message.
HandedOffNoLog(task, message) == [task EXCEPT !.assigned_agent = message.to_agent]

\* lines 560-561
HandedOff(task, message) ==
  [task EXCEPT !.assigned_agent = message.to_agent,
               !.messages = Append(@, message)]

\* _handle_handoff, lines 546-562.
handle_handoff(ts, message) ==
  [t \in TaskIds |->
     IF t \in HandoffTarget(message) THEN HandedOff(ts[t], message) ELSE ts[t]]

\* A dispatch on the message type that treats a query as a handoff.
ReassignsOnQuery(message) == message.message_type \in {"handoff", "query"}

\* line 536: only a HANDOFF message reaches _handle_handoff.
Reassigns(message) == message.message_type = "handoff"

\* lines 535-539: _handle_handoff, _handle_query (which only logs), or nothing.
Handled(ts, message) ==
  IF Reassigns(message) THEN handle_handoff(ts, message) ELSE ts

\* The loop returns what it has collected.
DrainReturns ==
  /\ drain' = [drain EXCEPT !.state = "returned"]
  /\ returned' = returned \o drain.messages
  /\ UNCHANGED <<nobus, tasks, message_queue, sent>>

\* lines 525-526: the deadline is reached; with timeout 0 it is reached at
\* the first test, with a positive timeout at any test.
DrainDeadline ==
  /\ drain.state = "running"
  /\ drain.timeout # "none"
  /\ DrainReturns

\* lines 529-539: a message is taken from the queue, collected and handled.
DrainGet ==
  /\ drain.state = "running"
  /\ drain.timeout # "zero"
  /\ message_queue # <<>>
  /\ LET message == Head(message_queue) IN
       /\ message_queue' = Tail(message_queue)
       /\ drain' = [drain EXCEPT !.messages = Append(@, message)]
       /\ tasks' = Handled(tasks, message)
  /\ UNCHANGED <<nobus, sent, returned>>

\* lines 541-542: the queue stayed empty for wait_time, TimeoutError.
DrainTimeout ==
  /\ drain.state = "running"
  /\ drain.timeout # "zero"
  /\ message_queue = <<>>
  /\ DrainReturns

BusInit == OrchestratorInit /\ agent_callbacks = {}

BusNext ==
  \/ decompose_task("feature")
  \/ \E to \in {"backend-master", "qa-sentinel"}, content \in Contents :
       send_message(to, "handoff", content)
  \/ \E type \in MessageTypes \ {"handoff"} : send_message("qa-sentinel", type, Str("A"))
  \/ \E timeout \in Timeouts : process_messages(timeout)
  \/ DrainDeadline
  \/ DrainGet
  \/ DrainTimeout

SpecBus == BusInit /\ [][BusNext]_vars

\* ------------------------------------------------------------ assign_agent
MaxWords == 2

\* Strings are sequences of characters.
UpperCase == <<"A", "B", "C", "D", "E", "F", "G", "H", "I", "J", "K", "L", "M", "N", "O", "P", "Q", "R", "S", "T", "U", "V", "W", "X", "Y", "Z">>
LowerCase == <<"a", "b", "c", "d", "e", "f", "g", "h", "i", "j", "k", "l", "m", "n", "o", "p", "q", "r", "s", "t", "u", "v", "w", "x", "y", "z">>

\* str.lower(), one character
LowerChar(c) ==
  IF \E i \in DOMAIN UpperCase : UpperCase[i] = c
  THEN LowerCase[CHOOSE i \in DOMAIN UpperCase : UpperCase[i] = c]
  ELSE c

\* str.lower()
Lower(str) == [i \in DOMAIN str |-> LowerChar(str[i])]

\* keyword in description
IsSubstring(keyword, str) ==
  \E i \in 1..(Len(str) - Len(keyword) + 1) :
    SubSeq(str, i, i + Len(keyword) - 1) = keyword

\* The words a description is made of in this model, and the task types.
Words == {<<"D", "e", "s", "i", "g", "n">>,
          <<"A", "P", "I">>,
          <<"c", "l", "i">>,
          <<"d", "e", "p", "l", "o", "y">>,
          <<"w", "e", "b", "h", "o", "o", "k">>,
          <<"t", "e", "s", "t", "s">>,
          <<"i", "n", "f", "r", "a", "s", "t", "r", "u", "c", "t", "u", "r", "e">>,
          <<"l", "a", "t", "e", "s", "t">>,
          <<"f", "i", "x">>}

TypeInputs == {<<"f", "e", "a", "t", "u", "r", "e">>,
               <<"F", "E", "A", "T", "U", "R", "E">>,
               <<"b", "u", "g", "f", "i", "x">>,
               <<"r", "e", "f", "a", "c", "t", "o", "r">>,
               <<"u", "n", "k", "n", "o", "w", "n">>}

RECURSIVE Join(_)
Join(words) ==
  IF words = <<>> THEN <<>>
  ELSE IF Len(words) = 1 THEN words[1]
  ELSE words[1] \o <<" ">> \o Join(Tail(words))

Descriptions == {Join(ws) : ws \in UNION {[1..n -> Words] : n \in 0..MaxWords}}

\* The rules with the QA rule first and the architect rule last.
KeywordRulesReversed == <<
   [agent |-> "qa-sentinel",
    keywords |-> {<<"t", "e", "s", "t">>,
                  <<"q", "a">>,
                  <<"q", "u", "a", "l", "i", "t", "y">>,
                  <<"r", "e", "v", "i", "e", "w">>}],
   [agent |-> "integration-specialist",
    keywords |-> {<<"i", "n", "t", "e", "g", "r", "a", "t", "i", "o", "n">>,
                  <<"w", "e", "b", "h", "o", "o", "k">>,
                  <<"m", "c", "p">>,
                  <<"e", "x", "t", "e", "r", "n", "a", "l">>}],
   [agent |-> "platform-builder",
    keywords |-> {<<"d", "e", "p", "l", "o", "y">>,
                  <<"d", "o", "c", "k", "e", "r">>,
                  <<"k", "u", "b", "e", "r", "n", "e", "t", "e", "s">>,
                  <<"c", "i", "c", "d">>,
                  <<"i", "n", "f", "r", "a", "s", "t", "r", "u", "c", "t", "u", "r", "e">>}],
   [agent |-> "cli-artisan",
    keywords |-> {<<"c", "l", "i">>,
                  <<"c", "o", "m", "m", "a", "n", "d">>,
                  <<"t", "e", "r", "m", "i", "n", "a", "l">>}],
   [agent |-> "backend-master",
    keywords |-> {<<"a", "p", "i">>,
                  <<"e", "n", "d", "p", "o", "i", "n", "t">>,
                  <<"d", "a", "t", "a", "b", "a", "s", "e">>,
                  <<"b", "a", "c", "k", "e", "n", "d">>,
                  <<"r", "e", "p", "o", "s", "i", "t", "o", "r", "y">>}],
   [agent |-> "lead-architect",
    keywords |-> {<<"a", "r", "c", "h", "i", "t", "e", "c", "t">>,
                  <<"d", "e", "s", "i", "g", "n">>,
                  <<"p", "a", "t", "t", "e", "r", "n">>,
                  <<"s", "t", "r", "u", "c", "t", "u", "r", "e">>}]>>

\* The keyword rules in the order of the if statements, lines 227-262.
KeywordRules == <<
   [agent |-> "lead-architect",
    keywords |-> {<<"a", "r", "c", "h", "i", "t", "e", "c", "t">>,
                  <<"d", "e", "s", "i", "g", "n">>,
                  <<"p", "a", "t", "t", "e", "r", "n">>,
                  <<"s", "t", "r", "u", "c", "t", "u", "r", "e">>}],
   [agent |-> "backend-master",
    keywords |-> {<<"a", "p", "i">>,
                  <<"e", "n", "d", "p", "o", "i", "n", "t">>,
                  <<"d", "a", "t", "a", "b", "a", "s", "e">>,
                  <<"b", "a", "c", "k", "e", "n", "d">>,
                  <<"r", "e", "p", "o", "s", "i", "t", "o", "r", "y">>}],
   [agent |-> "cli-artisan",
    keywords |-> {<<"c", "l", "i">>,
                  <<"c", "o", "m", "m", "a", "n", "d">>,
                  <<"t", "e", "r", "m", "i", "n", "a", "l">>}],
   [agent |-> "platform-builder",
    keywords |-> {<<"d", "e", "p", "l", "o", "y">>,
                  <<"d", "o", "c", "k", "e", "r">>,
                  <<"k", "u", "b", "e", "r", "n", "e", "t", "e", "s">>,
                  <<"c", "i", "c", "d">>,
                  <<"i", "n", "f", "r", "a", "s", "t", "r", "u", "c", "t", "u", "r", "e">>}],
   [agent |-> "integration-specialist",
    keywords |-> {<<"i", "n", "t", "e", "g", "r", "a", "t", "i", "o", "n">>,
                  <<"w", "e", "b", "h", "o", "o", "k">>,
                  <<"m", "c", "p">>,
                  <<"e", "x", "t", "e", "r", "n", "a", "l">>}],
   [agent |-> "qa-sentinel",
    keywords |-> {<<"t", "e", "s", "t">>,
                  <<"q", "a">>,
                  <<"q", "u", "a", "l", "i", "t", "y">>,
                  <<"r", "e", "v", "i", "e", "w">>}]>>

Matches(rule, description_lower) ==
  \E keyword \in rule.keywords : IsSubstring(keyword, description_lower)

\* A fallback that compares the type as it was given.
TypeFallbackCaseSensitive(type, task_type_lower) ==
  IF type = <<"f", "e", "a", "t", "u", "r", "e">> THEN "backend-master"
  ELSE IF type \in {<<"b", "u", "g", "f", "i", "x">>, <<"r", "e", "f", "a", "c", "t", "o", "r">>} THEN "qa-sentinel"
  ELSE "lead-architect"

\* lines 264-273: the fallback on the lower-cased type, then the architect.
TypeFallback(type, task_type_lower) ==
  IF task_type_lower = <<"f", "e", "a", "t", "u", "r", "e">> THEN "backend-master"
  ELSE IF task_type_lower \in {<<"b", "u", "g", "f", "i", "x">>, <<"r", "e", "f", "a", "c", "t", "o", "r">>} THEN "qa-sentinel"
  ELSE "lead-architect"

\* A router that balances the load: the first pool without an active task.
assign_agent_balancing(description, type) ==
  LET idle == {i \in DOMAIN KeywordRules :
                 \A t \in active_tasks : tasks[t].assigned_agent # KeywordRules[i].agent} IN
  IF idle # {}
  THEN KeywordRules[CHOOSE i \in idle : \A j \in idle : i <= j].agent
  ELSE "lead-architect"

\* assign_agent, lines 211-273.
assign_agent(description, type) ==
  LET description_lower == Lower(description)
      task_type_lower == Lower(type)
      hits == {i \in DOMAIN KeywordRules : Matches(KeywordRules[i], description_lower)} IN
  IF hits # {}
  THEN KeywordRules[CHOOSE i \in hits : \A j \in hits : i <= j].agent
  ELSE TypeFallback(type, task_type_lower)

RouterInit ==
  /\ OrchestratorInit
  /\ agent_callbacks = {}
  /\ routed = NoRoute

norouter == <<orchestration_enabled, max_parallel, learning_enabled,
              agent_callbacks, agents, batchvars, dvars, tasks, active_tasks,
              o_awaiting, o_last, completed_tasks, interaction_log, now,
              message_queue, sent, drain, returned>>

Assignment(description, type, agent) ==
  [description |-> description, type |-> type, agent |-> agent]

\* The caller builds a Task with a description and a type.
NewDescription(description, type) ==
  /\ routed.agent # "unassigned"
  /\ routed' = Assignment(description, type, "unassigned")
  /\ UNCHANGED <<norouter, assignments>>

\* assign_agent(task) returns the agent for that Task.
AssignAgent ==
  /\ routed.agent = "unassigned"
  /\ LET agent == assign_agent(routed.description, routed.type) IN
       /\ routed' = [routed EXCEPT !.agent = agent]
       /\ assignments' = assignments \cup {Assignment(routed.description, routed.type, agent)}
  /\ UNCHANGED norouter

\* One Task is built and routed.
RouterNext ==
  \/ /\ routed = NoRoute
     /\ \E description \in Descriptions, type \in TypeInputs :
          NewDescription(description, type)
  \/ AssignAgent

SpecRouter == RouterInit /\ [][RouterNext]_vars

\* ------------------------------------------------------------- create_task
\* The descriptions and types given to create_task and assign_agent here.
CreateDescriptions == {<<"D", "e", "s", "i", "g", "n">>, <<"f", "i", "x">>}
CreateTypes == {<<"f", "e", "a", "t", "u", "r", "e">>, <<"u", "n", "k", "n", "o", "w", "n">>}

\* self.agents: the built-in table, or a table read from config.json.
PoolTables == {BuiltinAgents, {"lead-architect", "qa-sentinel"}}

\* The Task of lines 295-303.
Created(id, description, type, agent) ==
  [NewTask(id, {}) EXCEPT !.description = description, !.type = type,
                          !.assigned_agent = agent]

\* create_task(description, task_type), lines 295-310; id is what
\* str(uuid.uuid4())[:8] yields, one of the 16^8 strings of eight hex digits,
\* here one of TaskIds. The Task stored under an id whose execution is being
\* awaited is not replaced in this model.
create_task(id, description, type) ==
  LET agent == assign_agent(description, type) IN
  /\ id \notin o_awaiting
  /\ tasks' = [tasks EXCEPT ![id] = Created(id, description, type, agent)]
  /\ active_tasks' = active_tasks \cup {id}
  /\ assignments' = assignments \cup {Assignment(description, type, agent)}
  /\ o_last' = OCall("create_task", id, "task")
  /\ UNCHANGED <<orchestration_enabled, max_parallel, learning_enabled,
                 agent_callbacks, agents, batchvars, dvars, o_awaiting,
                 completed_tasks, interaction_log, now, message_queue, sent,
                 drain, returned, routed>>

CreateInit ==
  /\ orchestration_enabled = TRUE
  /\ max_parallel = 1
  /\ learning_enabled = FALSE
  /\ agent_callbacks = {}
  /\ agents \in PoolTables
  /\ tasks = [t \in TaskIds |-> NewTask(t, {})]
  /\ completed_tasks = {}
  /\ interaction_log = <<>>
  /\ now = 0
  /\ batch = <<>> /\ batch_state = "idle" /\ pc = <<>>
  /\ sem_value = 0 /\ sem_waiters = <<>>
  /\ raw_results = <<>> /\ final_results = <<>> /\ callback = <<>>
  /\ active_tasks = {}
  /\ o_awaiting = {}
  /\ o_last = [op |-> "none", id |-> "none", ret |-> "none"]
  /\ message_queue = <<>> /\ sent = <<>> /\ drain = NoDrain /\ returned = <<>>
  /\ routed = NoRoute
  /\ assignments = {}
  /\ d_tasks = <<>> /\ d_history = <<>> /\ d_now = 0
  /\ d_last = [op |-> "none", id |-> "none", ret |-> "none"]

CreateNext ==
  \/ \E id \in {"A", "B"}, description \in CreateDescriptions, type \in CreateTypes :
       create_task(id, description, type)
  \/ \E type \in CreateTypes : NewDescription(<<"f", "i", "x">>, type)
  \/ AssignAgent
  \/ execute_task_async("A")
  \/ /\ message_queue = <<>>
     /\ send_message("qa-sentinel", "status", Str("A"))

SpecCreate == CreateInit /\ [][CreateNext]_vars

\* ------------------------- execute_parallel while process_messages drains
\* The dependency lists of the subtasks decompose_task has built.
SubtaskDeps == [t \in TaskIds |-> SubtaskDependencies(t)]

HandoffInit ==
  /\ orchestration_enabled = TRUE
  /\ max_parallel \in 1..MaxParallel
  /\ learning_enabled = FALSE
  /\ agent_callbacks = Agents
  /\ agents = BuiltinAgents
  /\ tasks = [t \in TaskIds |-> NewTask(t, {})]
  /\ completed_tasks = {}
  /\ interaction_log = <<>>
  /\ now = 0
  /\ batch = <<>> /\ batch_state = "idle" /\ pc = <<>>
  /\ sem_value = 0 /\ sem_waiters = <<>>
  /\ raw_results = <<>> /\ final_results = <<>> /\ callback = <<>>
  /\ active_tasks = {}
  /\ o_awaiting = {}
  /\ o_last = [op |-> "none", id |-> "none", ret |-> "none"]
  /\ message_queue = <<>> /\ sent = <<>> /\ drain = NoDrain /\ returned = <<>>
  /\ routed = NoRoute
  /\ assignments = {}
  /\ d_tasks = <<>> /\ d_history = <<>> /\ d_now = 0
  /\ d_last = [op |-> "none", id |-> "none", ret |-> "none"]

\* A feature is decomposed, its subtasks <id>-arch and <id>-impl are given to
\* execute_parallel, and handoffs for them are sent and drained meanwhile.
HandoffNext ==
  \/ /\ batch_state = "idle" /\ active_tasks = {}
     /\ decompose_task("feature")
  \/ /\ active_tasks = TaskIds
     /\ tasks = [t \in TaskIds |-> Subtask(t)]
     /\ StartBatch(<<"A", "B">>, SubtaskDeps)
  \/ \E i \in Positions : CoStart(i)
  \/ \E i \in Positions : CoResume(i)
  \/ \E i \in Positions : CoPoll(i)
  \/ \E i \in Positions : CallbackReturns(i)
  \/ \E i \in Positions : CallbackRaises(i)
  \/ GatherReturn
  \/ \E t \in {"A", "B"} : send_message("qa-sentinel", "handoff", Str(t))
  \/ process_messages("none")
  \/ DrainGet
  \/ DrainTimeout

SpecHandoff == HandoffInit /\ [][HandoffNext]_vars

\* ------------------- decompose_task followed by execute_parallel (639-688)
\* The orders in which the caller may hand the three subtasks over.
FeatureOrders ==
  {b \in [1..Cardinality(TaskIds) -> TaskIds] :
     \A i, j \in DOMAIN b : b[i] = b[j] => i = j}

\* A task is decomposed and, when it was a feature, its three subtasks are
\* given to execute_parallel as one batch, in any order.
FeatureNext ==
  \/ /\ batch_state = "idle"
     /\ \E type \in TaskTypes : decompose_task(type)
  \/ /\ active_tasks = TaskIds
     /\ tasks = [t \in TaskIds |-> Subtask(t)]
     /\ \E b \in FeatureOrders : StartBatch(b, SubtaskDeps)
  \/ \E i \in Positions : CoStart(i)
  \/ \E i \in Positions : CoResume(i)
  \/ \E i \in Positions : CoPoll(i)
  \/ \E i \in Positions : CallbackReturns(i)
  \/ \E i \in Positions : CallbackRaises(i)
  \/ GatherReturn

SpecFeature == HandoffInit /\ [][FeatureNext]_vars

\* The event loop runs every coroutine that is ready, and callbacks terminate.
FairFeature == SpecFeature /\ WF_vars(BatchStep)

\* ------------------------------------------------------- TaskDispatcher
MaxDispatch == 2

DTaskIds == {"task-1", "task-2"}
DAgents == {"backend-master", "qa-sentinel"}
Handlers == {"none", "returns", "raises"}

NoCall == [op |-> "none", id |-> "none", ret |-> "none"]
Call(op, id, ret) == [op |-> op, id |-> id, ret |-> ret]

Active == DOMAIN d_tasks

\* DispatchedTask as dispatch creates it; handler_calls counts invocations.
Dispatched(id, agent, handler, time) ==
  [id |-> id, agent |-> agent, handler |-> handler, status |-> "queued",
   created_at |-> time, started_at |-> NoTime, completed_at |-> NoTime,
   result |-> "none", handler_calls |-> 0]

Put(f, id, rec) == [k \in DOMAIN f \cup {id} |-> IF k = id THEN rec ELSE f[k]]
Drop(f, id) == [k \in DOMAIN f \ {id} |-> f[k]]

DispatcherInit ==
  /\ orchestration_enabled = TRUE
  /\ max_parallel = 1
  /\ learning_enabled = FALSE
  /\ agent_callbacks = {}
  /\ tasks = [t \in TaskIds |-> NewTask(t, {})]
  /\ completed_tasks = {}
  /\ interaction_log = <<>>
  /\ now = 0
  /\ batch = <<>>
  /\ batch_state = "idle"
  /\ pc = <<>>
  /\ sem_value = 0
  /\ sem_waiters = <<>>
  /\ raw_results = <<>>
  /\ final_results = <<>>
  /\ callback = <<>>
  /\ active_tasks = {}
  /\ o_awaiting = {}
  /\ o_last = [op |-> "none", id |-> "none", ret |-> "none"]
  /\ Quiet
  /\ d_tasks = <<>>
  /\ d_history = <<>>
  /\ d_now = 0
  /\ d_last = NoCall

\* The clock after MaxDispatch tasks were dispatched, started and finished.
ClockLimit == 3 * MaxDispatch

\* dispatch: a new Queued record, or Conflict when the id is active.
dispatch(id, agent, handler) ==
  /\ Cardinality(Active) + Len(d_history) < MaxDispatch
  /\ d_now < ClockLimit
  /\ IF id \in Active
     THEN /\ d_last' = Call("dispatch", id, "Conflict")
          /\ UNCHANGED <<d_tasks, d_history, d_now>>
     ELSE /\ d_tasks' = Put(d_tasks, id, Dispatched(id, agent, handler, d_now + 1))
          /\ d_now' = d_now + 1
          /\ d_last' = Call("dispatch", id, "queued")
          /\ UNCHANGED d_history
  /\ UNCHANGED ovars

\* A lookup that answers an absent id with a Failed result instead of failing.
ExecuteAbsentAsFailed(id) == Call("execute", id, "failed")

\* The lookup of an absent id fails with NotFound.
ExecuteAbsent(id) == Call("execute", id, "NotFound")

\* execute on an id that is not active: NotFound.
execute_unknown(id) ==
  /\ id \notin Active
  /\ d_last' = ExecuteAbsent(id)
  /\ UNCHANGED <<d_tasks, d_history, d_now, ovars>>

\* execute: Queued -> Running, started_at, and the handler is invoked.
execute_start(id) ==
  /\ id \in Active
  /\ d_tasks[id].status = "queued"
  /\ d_tasks' = [d_tasks EXCEPT ![id].status = "running",
                                ![id].started_at = d_now + 1,
                                ![id].handler_calls = @ + 1]
  /\ d_now' = d_now + 1
  /\ d_last' = Call("execute", id, "running")
  /\ UNCHANGED <<d_history, ovars>>

Outcome(handler) == IF handler = "raises" THEN "failed" ELSE "completed"

Finished(rec, time) ==
  [rec EXCEPT !.status = Outcome(rec.handler), !.completed_at = time,
              !.result = Outcome(rec.handler)]

\* execute: the handler is done; the task leaves the active set for history.
execute_finish(id) ==
  /\ id \in Active
  /\ d_tasks[id].status = "running"
  /\ d_history' = Append(d_history, Finished(d_tasks[id], d_now + 1))
  /\ d_tasks' = Drop(d_tasks, id)
  /\ d_now' = d_now + 1
  /\ d_last' = Call("execute", id, Outcome(d_tasks[id].handler))
  /\ UNCHANGED ovars

\* A cancel that forgets to stamp completed_at.
CancelledUnstamped(rec, time) == [rec EXCEPT !.status = "cancelled"]

Cancelled(rec, time) ==
  [rec EXCEPT !.status = "cancelled", !.completed_at = time]

\* A cancel that also takes a task whose handler is in flight.
CancellableWhileRunning(rec) == rec.status \in {"queued", "running"}

\* cancel succeeds only if the task is currently Queued (not yet started).
Cancellable(rec) == rec.status = "queued"

\* cancel: only a Queued task is cancelled; anything else returns false.
cancel_task(id) ==
  /\ IF id \in Active /\ Cancellable(d_tasks[id])
     THEN /\ d_history' = Append(d_history, Cancelled(d_tasks[id], d_now + 1))
          /\ d_tasks' = Drop(d_tasks, id)
          /\ d_now' = d_now + 1
          /\ d_last' = Call("cancel", id, "true")
     ELSE /\ d_last' = Call("cancel", id, "false")
          /\ UNCHANGED <<d_tasks, d_history, d_now>>
  /\ UNCHANGED ovars

\* A count that looks at the history only.
StatusCountHistoryOnly(st) ==
  Cardinality({k \in DOMAIN d_history : d_history[k].status = st})

\* The number of tasks with status st, aggregated over active + history.
StatusCount(st) ==
  Cardinality({id \in Active : d_tasks[id].status = st})
    + Cardinality({k \in DOMAIN d_history : d_history[k].status = st})

\* A rate that is a fraction of one, not a percentage.
SuccessRateAsFraction(completed, failed) ==
  IF completed + failed = 0 THEN [num |-> 0, den |-> 1]
  ELSE [num |-> completed, den |-> completed + failed]

\* successRate = completed / (completed + failed) * 100, and 0 when the
\* denominator is 0; the number is kept as the fraction num / den.
SuccessRate(completed, failed) ==
  IF completed + failed = 0 THEN [num |-> 0, den |-> 1]
  ELSE [num |-> completed * 100, den |-> completed + failed]

\* getStats: the counts and the success rate of section 4.2.
getStats ==
  [total       |-> Cardinality(Active) + Len(d_history),
   queued      |-> StatusCount("queued"),
   running     |-> StatusCount("running"),
   completed   |-> StatusCount("completed"),
   failed      |-> StatusCount("failed"),
   cancelled   |-> StatusCount("cancelled"),
   successRate |-> SuccessRate(StatusCount("completed"), StatusCount("failed"))]

\* A workload that also counts the tasks that are in history.
getAgentWorkloadWithHistory(agent) ==
  Cardinality({id \in Active : d_tasks[id].agent = agent})
    + Cardinality({k \in DOMAIN d_history : d_history[k].agent = agent})

\* getAgentWorkload: the active tasks assigned to the agent.
getAgentWorkload(agent) ==
  Cardinality({id \in Active : d_tasks[id].agent = agent})

\* A clear that drops the active tasks as well.
ClearedWithActive(f) == <<>>

\* What clearHistory leaves of the active set: all of it.
Cleared(f) == f

\* clearHistory: empties the history log.
clear_history ==
  /\ d_history # <<>>
  /\ d_history' = <<>>
  /\ d_tasks' = Cleared(d_tasks)
  /\ d_last' = Call("clear_history", "none", "none")
  /\ UNCHANGED <<d_now, ovars>>

DispatcherNext ==
  \/ \E id \in DTaskIds, agent \in DAgents, handler \in Handlers :
       dispatch(id, agent, handler)
  \/ \E id \in DTaskIds : execute_unknown(id)
  \/ \E id \in DTaskIds : execute_start(id)
  \/ \E id \in DTaskIds : execute_finish(id)
  \/ \E id \in DTaskIds : cancel_task(id)

SpecDispatcher == DispatcherInit /\ [][DispatcherNext]_vars

\* The dispatcher with clearHistory among its operations, for one agent.
HistoryNext ==
  \/ \E id \in DTaskIds, handler \in {"returns", "raises"} :
       dispatch(id, "backend-master", handler)
  \/ \E id \in DTaskIds : execute_start(id)
  \/ \E id \in DTaskIds : execute_finish(id)
  \/ \E id \in DTaskIds : cancel_task(id)
  \/ clear_history

SpecHistory == DispatcherInit /\ [][HistoryNext]_vars

\* ----------------------------------------- TaskDispatcher, read accessors
\* A filter that is not given is "any".
StatusFilters == {"any", "queued", "running"}
AgentFilters == {"any"} \cup DAgents

\* A listing that ignores the agent filter.
ListedByStatusOnly(status, agent) ==
  {id \in Active : status = "any" \/ d_tasks[id].status = status}

\* listTasks(filterByStatus?, filterByAgent?): the active tasks that match
\* every filter that is given.
Listed(status, agent) ==
  {id \in Active : /\ status = "any" \/ d_tasks[id].status = status
                   /\ agent = "any" \/ d_tasks[id].agent = agent}

\* getTask(id): the active task with that id, or None.
get_task(id) ==
  /\ d_last' = Call("get_task", id, IF id \in Active THEN "task" ELSE "None")
  /\ UNCHANGED <<d_tasks, d_history, d_now, ovars>>

list_tasks(status, agent) ==
  /\ d_last' = [op |-> "list_tasks", status |-> status, agent |-> agent,
                ret |-> Listed(status, agent)]
  /\ UNCHANGED <<d_tasks, d_history, d_now, ovars>>

get_agent_workload(agent) ==
  /\ d_last' = Call("get_agent_workload", agent, getAgentWorkload(agent))
  /\ UNCHANGED <<d_tasks, d_history, d_now, ovars>>

get_stats ==
  /\ d_last' = Call("get_stats", "none", getStats)
  /\ UNCHANGED <<d_tasks, d_history, d_now, ovars>>

ReadsNext ==
  \/ \E id \in DTaskIds, agent \in DAgents : dispatch(id, agent, "returns")
  \/ \E id \in DTaskIds : execute_start(id)
  \/ \E id \in DTaskIds : execute_finish(id)
  \/ \E id \in DTaskIds : get_task(id)
  \/ \E status \in StatusFilters, agent \in AgentFilters : list_tasks(status, agent)
  \/ \E agent \in DAgents : get_agent_workload(agent)
  \/ get_stats

SpecReads == DispatcherInit /\ [][ReadsNext]_vars

\* ---------------------------------------------------------------- claims
Running == {t \in TaskIds : tasks[t].status = "in_progress"}

RunningCoroutines == {i \in Positions : pc[i] = "running"}

Distinct(b) == \A i, j \in 1..Len(b) : b[i] = b[j] => i = j

\* The tasks t depends on, directly or through other tasks.
RECURSIVE DependsOn(_, _)
DependsOn(t, n) ==
  IF n = 0 THEN {}
  ELSE LET direct == tasks[t].dependencies IN
       direct \cup UNION {DependsOn(d, n - 1) : d \in direct \cap TaskIds}

AcyclicInBatch ==
  /\ Distinct(batch)
  /\ \A i \in Positions :
       /\ tasks[batch[i]].dependencies \subseteq RangeOf(batch)
       /\ batch[i] \notin DependsOn(batch[i], Cardinality(TaskIds))

SomeFailed == \E t \in TaskIds : tasks[t].status = "failed"

\* Position i waits for a dependency whose task has failed.
BlockedByFailure(i) ==
  /\ batch_state = "running"
  /\ Distinct(batch)
  /\ i \in Positions
  /\ pc[i] = "wait_deps"
  /\ \E d \in tasks[batch[i]].dependencies :
       d \notin completed_tasks /\ tasks[d].status = "failed"

\* C1: during execute_parallel the number of tasks that are in_progress (and
\* of callbacks being awaited) never exceeds max_parallel.
C1_RunningWithinCeiling ==
  /\ Cardinality(Running) <= max_parallel
  /\ Cardinality(RunningCoroutines) <= max_parallel

C1_Witness ==
  /\ orchestration_enabled
  /\ max_parallel >= 2
  /\ Cardinality(Running) = max_parallel
  /\ \E i \in Positions : pc[i] = "wait_sem"

\* C2: a task is in_progress only while all its dependencies are in the
\* completed set, with orchestration enabled or disabled.
C2_RunningOnlyAfterDependencies ==
  \A t \in TaskIds :
    tasks[t].status = "in_progress" => tasks[t].dependencies \subseteq completed_tasks

\* C3: a running batch eventually returns to its caller, also when a
\* dependency of one of its tasks has failed.
C3_BatchEventuallyReturns ==
  \A i \in 1..MaxBatch :
    BlockedByFailure(i) ~> (batch_state \in {"returned", "raised"})

\* C4: a batch of distinct tasks with acyclic dependencies inside the batch
\* whose callbacks never raise eventually returns with every task completed.
C4_AcyclicBatchCompletes ==
  (batch_state = "running" /\ AcyclicInBatch)
    ~> \/ SomeFailed
       \/ /\ batch_state = "returned"
          /\ \A i \in Positions : tasks[batch[i]].status = "completed"

\* C5: a task whose dependency failed is eventually reported in the returned
\* results as blocked, an entry that is neither a result nor a failure.
C5_BlockedDependentReported ==
  \A i \in 1..MaxBatch :
    BlockedByFailure(i)
      ~> /\ batch_state = "returned"
         /\ i \in DOMAIN final_results
         /\ final_results[i].kind \notin {"ok", "failed"}

\* C6: a task never starts (started_at is stamped) while one of its
\* dependencies is failed.
C6_NoStartAfterFailedDependency ==
  [][\A t \in TaskIds :
       tasks'[t].started_at # tasks[t].started_at
         => \A d \in tasks[t].dependencies \cap TaskIds : tasks[d].status # "failed"]_vars

\* C7: a failing callback does not abort the batch: no error is raised to
\* the caller of execute_parallel, with orchestration enabled or disabled.
C7_FailureDoesNotAbortBatch ==
  (\E i \in Positions : raw_results[i].kind = "error") => batch_state # "raised"

\* C8: the returned list has one entry per input task and entry i is the
\* outcome of the task at input position i.
C8_OneResultPerInputTask ==
  batch_state = "returned" =>
    /\ Len(final_results) = Len(batch)
    /\ \A i \in Positions :
         /\ final_results[i].task = batch[i]
         /\ final_results[i].kind = IF raw_results[i].kind = "error" THEN "failed" ELSE "ok"

C8_Witness ==
  /\ batch_state = "returned" /\ orchestration_enabled
  /\ Len(batch) = 3 /\ Distinct(batch)
  /\ tasks[batch[2]].completed_at # NoTime
  /\ tasks[batch[1]].completed_at > tasks[batch[2]].completed_at
  /\ final_results[3].kind = "failed"

\* C9: with orchestration disabled at most one task runs at a time and the
\* task at position i+1 starts only after the task at position i is done,
\* whatever max_parallel is.
C9_SequentialWhenDisabled ==
  ~orchestration_enabled =>
    /\ Cardinality(Running) <= 1
    /\ Cardinality(RunningCoroutines) <= 1
    /\ \A i \in Positions : pc[i] # "created" => \A j \in 1..(i-1) : pc[j] = "done"

C9_Witness ==
  /\ ~orchestration_enabled /\ max_parallel >= 2
  /\ Len(batch) = 3 /\ Distinct(batch)
  /\ pc[1] = "done" /\ pc[2] = "running" /\ pc[3] = "created"
  /\ tasks[batch[1]].status = "completed"

\* A step of cancel(id).
CancelStep(id) ==
  /\ d_last'.op = "cancel" /\ d_last'.id = id
  /\ <<d_tasks, d_history, d_last>>' # <<d_tasks, d_history, d_last>>

\* C10: cancel on a Queued task returns true, moves the task from the active
\* set to the end of history with status Cancelled and completed_at stamped,
\* and a cancelled task's handler is never invoked.
C10_CancelQueued ==
  /\ [][\A id \in DTaskIds :
          (id \in Active /\ d_tasks[id].status = "queued" /\ CancelStep(id))
            => /\ d_last'.ret = "true"
               /\ id \notin DOMAIN d_tasks'
               /\ d_tasks' = Drop(d_tasks, id)
               /\ Len(d_history') = Len(d_history) + 1
               /\ SubSeq(d_history', 1, Len(d_history)) = d_history
               /\ LET rec == d_history'[Len(d_history')] IN
                    /\ rec.id = id
                    /\ rec.status = "cancelled"
                    /\ rec.completed_at # NoTime
                    /\ rec.completed_at >= rec.created_at
                    /\ rec.handler_calls = 0]_vars
  /\ [](\A k \in DOMAIN d_history :
          d_history[k].status = "cancelled"
            => d_history[k].handler_calls = 0 /\ d_history[k].started_at = NoTime)

C10_Witness ==
  /\ d_last = Call("cancel", "task-1", "true")
  /\ d_history # <<>>
  /\ d_history[Len(d_history)].id = "task-1"
  /\ d_history[Len(d_history)].status = "cancelled"
  /\ d_history[Len(d_history)].handler # "none"
  /\ "task-2" \in Active /\ d_tasks["task-2"].status = "running"

HistoryIds == {d_history[k].id : k \in DOMAIN d_history}

\* C11: cancel on an id that is Running, Completed, Failed, already
\* Cancelled or unknown returns false and changes neither the active set,
\* nor the history, nor any task record.
C11_CancelRefused ==
  [][\A id \in DTaskIds :
       (CancelStep(id) /\ ~(id \in Active /\ d_tasks[id].status = "queued"))
         => /\ d_last'.ret = "false"
            /\ d_tasks' = d_tasks
            /\ d_history' = d_history]_vars

\* cancel was refused for a Running task while the history holds a record.
C11_Witness ==
  /\ d_last = Call("cancel", "task-1", "false")
  /\ "task-1" \in Active /\ d_tasks["task-1"].status = "running"
  /\ "task-2" \in HistoryIds

\* A step of execute(id).
ExecuteStep(id) ==
  /\ d_last'.op = "execute" /\ d_last'.id = id
  /\ <<d_tasks, d_history, d_last>>' # <<d_tasks, d_history, d_last>>

\* C12: execute on an id that is not in the active set fails with NotFound
\* and leaves the active set and the history unchanged.
C12_ExecuteUnknownNotFound ==
  [][\A id \in DTaskIds :
       (ExecuteStep(id) /\ id \notin Active)
         => /\ d_last'.ret = "NotFound"
            /\ d_tasks' = d_tasks
            /\ d_history' = d_history]_vars

\* execute of a never dispatched id failed while another task is active.
C12_Witness ==
  /\ d_last = Call("execute", "task-2", "NotFound")
  /\ "task-2" \notin Active /\ "task-2" \notin HistoryIds
  /\ "task-1" \in Active

\* C13: execute_task_async does not propagate the error of a raising
\* callback to its caller: no call ends by raising.
C13_HandlerErrorNotPropagated ==
  o_last.op = "execute_task_async" => o_last.ret # "raised"

\* C14: no task id is in the active set and in the record of finished tasks
\* at the same time: a task that finishes leaves active_tasks in that step.
C14_NoIdActiveAndFinished == active_tasks \cap completed_tasks = {}

\* The status changes of section 4.3 in the orchestrator's statuses, which
\* have pending for Pending/Queued and in_progress for Running.
AllowedTransitions ==
  {<<"pending", "in_progress">>, <<"in_progress", "completed">>,
   <<"in_progress", "failed">>}

\* C15: every change of the status of a stored task is a transition of the
\* state machine; none leaves completed or failed.
C15_StatusFollowsStateMachine ==
  [][\A t \in active_tasks :
       (o_last'.op # "decompose_task" /\ tasks'[t].status # tasks[t].status)
         => <<tasks[t].status, tasks'[t].status>> \in AllowedTransitions]_vars

\* C16: a stored task has a result exactly when its status is completed or
\* failed.
C16_ResultIffFinished ==
  \A t \in active_tasks :
    (tasks[t].result # NoResult) <=> (tasks[t].status \in {"completed", "failed"})

\* The number of times the batch has invoked the callback for task t.
HandlerCalls(t) ==
  Cardinality({i \in Positions :
                 batch[i] = t /\ HasCallback(t) /\ pc[i] \in {"running", "done"}})

\* C17: a task that has been executed is not executed again: over a batch,
\* also one that lists a task more than once, each task's callback is
\* invoked at most once.
C17_HandlerInvokedAtMostOnce == \A t \in TaskIds : HandlerCalls(t) <= 1

\* C18: an operation that inserts into active_tasks leaves every task that
\* is already stored there as it was.
C18_InsertNeverOverwrites ==
  [][\A t \in active_tasks :
       o_last'.op = "decompose_task" => tasks'[t] = tasks[t]]_vars

\* Every dispatched id has been executed to its end, each id once.
AllExecuted ==
  /\ Active = {}
  /\ Cardinality(HistoryIds) = Len(d_history)
  /\ \A k \in DOMAIN d_history : d_history[k].status \in {"completed", "failed"}

\* C20: getStats().total is the size of the active set plus the length of
\* the history and is the sum of the five status counts; once n distinct
\* tasks are dispatched and all executed, total is n.
C20_StatsTotal ==
  /\ getStats.total = Cardinality(Active) + Len(d_history)
  /\ getStats.total = getStats.queued + getStats.running + getStats.completed
                        + getStats.failed + getStats.cancelled
  /\ AllExecuted => getStats.total = Cardinality(HistoryIds)

\* Two distinct tasks were dispatched and executed, one of them failing.
C20_Witness ==
  /\ AllExecuted
  /\ getStats.total = 2
  /\ getStats.completed = 1 /\ getStats.failed = 1

Retired == Active \ DOMAIN d_tasks'

\* C22: getAgentWorkload(agent) grows by one on each dispatch to the agent,
\* drops by one when a task of the agent completes, fails or is cancelled,
\* changes in no other step, and is 0 for an agent with no active task.
C22_AgentWorkload ==
  /\ [][\A agent \in DAgents :
          LET added == {id \in DOMAIN d_tasks' \ Active : d_tasks'[id].agent = agent}
              gone == {id \in Retired : d_tasks[id].agent = agent} IN
          /\ Cardinality(added) + Cardinality(gone) <= 1
          /\ getAgentWorkload(agent)'
               = getAgentWorkload(agent) + Cardinality(added) - Cardinality(gone)
          /\ (d_last'.op = "dispatch" /\ d_last'.ret = "queued")
               => Cardinality(added) = IF d_tasks'[d_last'.id].agent = agent THEN 1 ELSE 0
          /\ \A id \in gone :
               /\ d_history'[Len(d_history')].id = id
               /\ d_history'[Len(d_history')].status \in {"completed", "failed", "cancelled"}]_vars
  /\ [](\A agent \in DAgents :
          /\ (\A id \in Active : d_tasks[id].agent # agent) => getAgentWorkload(agent) = 0
          /\ \A id \in Active : d_tasks[id].status \in {"queued", "running"})

\* Two tasks were dispatched to one agent and one of them has completed.
C22_Witness ==
  /\ d_last.op = "execute" /\ d_last.ret = "completed"
  /\ getAgentWorkload("backend-master") = 1
  /\ getAgentWorkload("qa-sentinel") = 0
  /\ d_history # <<>> /\ d_history[1].agent = "backend-master"

\* C23: clearHistory empties the history and leaves the active set and
\* every active task record as they were.
C23_ClearHistoryKeepsActive ==
  [][d_last'.op = "clear_history" => d_history' = <<>> /\ d_tasks' = d_tasks]_vars

\* The history was cleared while a task is running.
C23_Witness ==
  /\ d_last.op = "clear_history"
  /\ d_history = <<>>
  /\ \E id \in Active : d_tasks[id].status = "running"

\* A step in which process_messages takes a message from the queue.
Drained ==
  /\ drain.state = "running" /\ drain'.state = "running"
  /\ Len(drain'.messages) = Len(drain.messages) + 1

\* The message taken in that step.
Taken == drain'.messages[Len(drain'.messages)]

\* The message is a handoff that names, as a string, a task in active_tasks.
NamesActiveTask(message, t) ==
  /\ message.message_type = "handoff"
  /\ message.content = Str(t)
  /\ t \in active_tasks

\* C24: draining a Handoff whose payload names a task of the active set
\* sets that task's assigned_agent to the message's to_agent, appends the
\* message to that task's messages, and changes nothing else of any task.
C24_HandoffReassigns ==
  [][\A t \in TaskIds :
       (Drained /\ NamesActiveTask(Taken, t))
         => /\ tasks'[t].assigned_agent = Taken.to_agent
            /\ tasks'[t].messages = Append(tasks[t].messages, Taken)
            /\ tasks'[t] = [tasks[t] EXCEPT !.assigned_agent = Taken.to_agent,
                                            !.messages = Append(@, Taken)]
            /\ \A u \in TaskIds \ {t} : tasks'[u] = tasks[u]]_vars

\* Task A was handed from the architect to QA; task B was not touched.
C24_Witness ==
  /\ active_tasks = TaskIds
  /\ tasks["A"].assigned_agent = "qa-sentinel"
  /\ Len(tasks["A"].messages) = 1
  /\ tasks["A"].messages[1].message_type = "handoff"
  /\ tasks["B"] = Subtask("B")

\* C25: draining a Handoff whose task id is missing, empty, not a string
\* or not in the active set raises nothing and changes no task record, nor
\* the active set, nor the completed set; the message is among those the
\* drain returns.
C25_InvalidHandoffIgnored ==
  /\ [][(/\ Drained
          /\ Taken.message_type = "handoff"
          /\ \A t \in TaskIds : ~NamesActiveTask(Taken, t))
           => /\ tasks' = tasks
              /\ active_tasks' = active_tasks
              /\ completed_tasks' = completed_tasks
              /\ Taken = Head(message_queue)]_vars
  /\ [][drain'.state = "returned" /\ drain.state = "running"
           => /\ drain'.messages = drain.messages
              /\ returned' = returned \o drain.messages]_vars

\* A drain returned a handoff without task id and a handoff for a task that
\* is not in the active set; no task has changed.
C25_Witness ==
  /\ drain.state = "returned"
  /\ Len(drain.messages) = 2
  /\ drain.messages[1].message_type = "handoff" /\ drain.messages[1].content = Absent
  /\ drain.messages[2].message_type = "handoff" /\ drain.messages[2].content = Str("A")
  /\ active_tasks = {}
  /\ tasks = [t \in TaskIds |-> NewTask(t, {})]

\* C26: draining a Query, Result, Status or Error message changes no task
\* (agent, status, messages) and leaves the active set as it was.
C26_OtherMessagesInert ==
  [][(Drained /\ Taken.message_type # "handoff")
       => tasks' = tasks /\ active_tasks' = active_tasks]_vars

\* A query that names the active task A was drained; A is as decomposed.
C26_Witness ==
  /\ drain.messages # <<>>
  /\ drain.messages[1].message_type = "query"
  /\ drain.messages[1].content = Str("A")
  /\ drain.at_call # <<>>
  /\ active_tasks = TaskIds
  /\ tasks["A"] = Subtask("A")

\* C27: the lists returned by successive process_messages calls, put end to
\* end, are a prefix of the messages in the order they were put on the
\* queue: no message is returned twice or out of order.
C27_DeliveryIsFifo ==
  /\ Len(returned) <= Len(sent)
  /\ returned = SubSeq(sent, 1, Len(returned))
  /\ \A i, j \in DOMAIN returned :
       returned[i].message_id = returned[j].message_id => i = j

\* Two drains have returned one message each, while sends went on.
C27_Witness ==
  /\ drain.state = "returned"
  /\ Len(returned) = 2 /\ Len(drain.messages) = 1
  /\ Len(drain.at_call) = 1
  /\ returned[1].message_id = 1 /\ returned[2].message_id = 2

\* C28: when process_messages returns, none of the messages that were in
\* the queue when it was called is still in the queue, whatever the timeout.
C28_DrainTakesAllQueued ==
  drain.state = "returned" =>
    \A k \in DOMAIN drain.at_call :
      \A q \in DOMAIN message_queue : message_queue[q] # drain.at_call[k]

\* assign_agent has returned for the routed task.
Assigned == routed.agent \notin {"none", "unassigned"}

\* The pools in the order architect, backend, CLI, platform, integration, QA.
PoolOrder ==
  <<"lead-architect", "backend-master", "cli-artisan", "platform-builder",
    "integration-specialist", "qa-sentinel">>

PoolKeywords(agent) ==
  UNION {KeywordRules[i].keywords :
           i \in {j \in DOMAIN KeywordRules : KeywordRules[j].agent = agent}}

\* The lower-cased description contains a keyword of the pool.
PoolMatches(agent) ==
  \E keyword \in PoolKeywords(agent) : IsSubstring(keyword, Lower(routed.description))

MatchingPools == {n \in DOMAIN PoolOrder : PoolMatches(PoolOrder[n])}

\* C29: the agent assigned to a description that matches keywords of one or
\* several pools is the first of these pools in the order architect,
\* backend, CLI, platform, integration, QA, whatever the task type is.
C29_FirstMatchingRuleWins ==
  Assigned =>
    \A n \in MatchingPools :
      (\A m \in MatchingPools : n <= m) => routed.agent = PoolOrder[n]

\* "tests API" with type bugfix matches QA and backend keywords: backend.
C29_Witness ==
  /\ routed.description = Join(<<<<"t", "e", "s", "t", "s">>, <<"A", "P", "I">>>>)
  /\ routed.type = <<"b", "u", "g", "f", "i", "x">>
  /\ MatchingPools = {2, 6}
  /\ routed.agent = "backend-master"

\* C30 as stated: with no keyword match the agent follows the task type:
\* feature gives backend, bugfix and refactor give QA, any other type gives
\* the architect.
C30_FallbackOnType ==
  (Assigned /\ MatchingPools = {}) =>
    routed.agent = IF routed.type = <<"f", "e", "a", "t", "u", "r", "e">> THEN "backend-master"
                   ELSE IF routed.type \in {<<"b", "u", "g", "f", "i", "x">>, <<"r", "e", "f", "a", "c", "t", "o", "r">>} THEN "qa-sentinel"
                   ELSE "lead-architect"

\* C30: with no keyword match the agent follows the lower-cased task type:
\* feature gives backend, bugfix and refactor give QA, any other type gives
\* the architect; the agent returned is always one of the six pools.
C30_FallbackOnLowerCasedType ==
  Assigned =>
    /\ \E n \in DOMAIN PoolOrder : routed.agent = PoolOrder[n]
    /\ MatchingPools = {} =>
         routed.agent = IF Lower(routed.type) = <<"f", "e", "a", "t", "u", "r", "e">> THEN "backend-master"
                        ELSE IF Lower(routed.type) \in {<<"b", "u", "g", "f", "i", "x">>, <<"r", "e", "f", "a", "c", "t", "o", "r">>} THEN "qa-sentinel"
                        ELSE "lead-architect"

\* "fix" with type FEATURE matches no keyword and goes to the backend pool.
C30_Witness ==
  /\ routed.description = <<"f", "i", "x">>
  /\ routed.type = <<"F", "E", "A", "T", "U", "R", "E">>
  /\ MatchingPools = {}
  /\ routed.agent = "backend-master"

\* What assign_agent returns for the descriptions and types of CreateDescriptions
\* and CreateTypes, in every state and with every table of pools.
ExpectedAssignments ==
  {Assignment(<<"D", "e", "s", "i", "g", "n">>, <<"f", "e", "a", "t", "u", "r", "e">>, "lead-architect"),
   Assignment(<<"D", "e", "s", "i", "g", "n">>, <<"u", "n", "k", "n", "o", "w", "n">>, "lead-architect"),
   Assignment(<<"f", "i", "x">>, <<"f", "e", "a", "t", "u", "r", "e">>, "backend-master"),
   Assignment(<<"f", "i", "x">>, <<"u", "n", "k", "n", "o", "w", "n">>, "lead-architect")}

\* A step in which a direct call of assign_agent returns.
AssignReturns == routed.agent = "unassigned" /\ routed'.agent # "unassigned"

\* C31: assign_agent returns the same agent for the same description and
\* type, whatever the active set, the completed set, the message queue and
\* the table of pools are, and a call changes neither the task it is given
\* nor any state of the orchestrator.
C31_AssignPureAndDeterministic ==
  /\ [](/\ \A x, y \in assignments :
             (x.description = y.description /\ x.type = y.type) => x.agent = y.agent
        /\ assignments \subseteq ExpectedAssignments)
  /\ [][AssignReturns
          => /\ routed'.description = routed.description
             /\ routed'.type = routed.type
             /\ UNCHANGED <<tasks, active_tasks, completed_tasks, message_queue,
                            agents, agent_callbacks, interaction_log, o_last, now,
                            orchestration_enabled, max_parallel, learning_enabled>>]_vars

\* Two tasks were created from "fix" / feature, one of them has completed
\* since, a message is queued, and a direct call returned the backend pool
\* again, which the configured table of pools does not hold.
C31_Witness ==
  /\ assignments = {Assignment(<<"f", "i", "x">>, <<"f", "e", "a", "t", "u", "r", "e">>, "backend-master")}
  /\ active_tasks = {"A", "B"}
  /\ tasks["A"].assigned_agent = "backend-master" /\ tasks["A"].status = "completed"
  /\ tasks["B"].assigned_agent = "backend-master" /\ tasks["B"].status = "pending"
  /\ completed_tasks = {"A"}
  /\ message_queue # <<>>
  /\ tasks["A"].description = <<"f", "i", "x">> /\ tasks["B"].description = <<"f", "i", "x">>
  /\ routed.agent = "backend-master"
  /\ "backend-master" \notin agents

\* A step of create_task that stores a Task under id.
CreateStep(id) ==
  /\ o_last'.op = "create_task" /\ o_last'.id = id
  /\ <<o_last, tasks, active_tasks>>' # <<o_last, tasks, active_tasks>>

\* C32: create_task returns a task that has an agent, the one assign_agent
\* gives, and is in the active set under its id; every task that was active
\* before is unchanged and the active set has grown by exactly one.
C32_CreateTaskAddsOne ==
  [][\A id \in TaskIds :
       CreateStep(id)
         => /\ tasks'[id].assigned_agent # "none"
            /\ Assignment(tasks'[id].description, tasks'[id].type,
                          tasks'[id].assigned_agent) \in ExpectedAssignments
            /\ id \in active_tasks'
            /\ \A t \in active_tasks : tasks'[t] = tasks[t]
            /\ Cardinality(active_tasks') = Cardinality(active_tasks) + 1]_vars

Terminal == {"completed", "failed"}

\* C33: started_at is set exactly once, when the task leaves pending, and
\* completed_at exactly once, when it reaches a terminal status; a task that
\* is completed or failed has both, and completed_at >= started_at.
C33_TimestampsSetOnce ==
  /\ [][\A t \in TaskIds :
          /\ tasks'[t].started_at # tasks[t].started_at
               => tasks[t].started_at = NoTime /\ tasks[t].status = "pending"
          /\ tasks'[t].completed_at # tasks[t].completed_at
               => tasks[t].completed_at = NoTime /\ tasks'[t].status \in Terminal
          /\ (tasks[t].status \notin Terminal /\ tasks'[t].status \in Terminal)
               => tasks'[t].completed_at # tasks[t].completed_at]_vars
  /\ [](\A t \in TaskIds :
          tasks[t].status \in Terminal
            => /\ tasks[t].started_at # NoTime
               /\ tasks[t].completed_at # NoTime
               /\ tasks[t].completed_at >= tasks[t].started_at)

\* The records the interaction log holds for task t.
LogRecords(t) == {k \in DOMAIN interaction_log : interaction_log[k].task_id = t}

\* C34: with learning enabled the interaction log holds exactly one record
\* for each task that has finished (completed or failed) and none for any
\* other task, and the log only grows at its end; with learning disabled the
\* log stays empty.
C34_OneRecordPerFinishedTask ==
  /\ [](IF learning_enabled
        THEN \A t \in TaskIds :
               Cardinality(LogRecords(t)) = IF tasks[t].status \in Terminal THEN 1 ELSE 0
        ELSE interaction_log = <<>>)
  /\ [][/\ Len(interaction_log') >= Len(interaction_log)
        /\ SubSeq(interaction_log', 1, Len(interaction_log)) = interaction_log]_vars

ReadOps == {"get_task", "list_tasks", "get_agent_workload", "get_stats"}

Holding == {i \in Positions : pc[i] \in {"wait_deps", "running"}}

\* C36: in execute_parallel a slot is held by every coroutine from its
\* acquisition until its task is completed or failed: no slot is free while
\* its callback is being awaited, and the slot is released in the step in
\* which the callback returns or raises.
C36_SlotHeldUntilTerminal ==
  /\ []((batch_state = "running" /\ orchestration_enabled)
          => sem_value + Cardinality(Holding) = max_parallel)
  /\ [][orchestration_enabled
          => \A i \in Holding :
               pc'[i] \notin {"wait_deps", "running"}
                 => /\ pc'[i] = "done"
                    /\ tasks'[batch[i]].status \in Terminal
                    /\ sem_value' = sem_value + 1]_vars

\* With one slot, the first callback raised, the second coroutine then got
\* the slot and its callback is awaited while the third waits for the slot.
C36_Witness ==
  /\ orchestration_enabled /\ max_parallel = 1
  /\ Len(batch) = 3 /\ Distinct(batch)
  /\ pc = <<"done", "running", "wait_sem">>
  /\ raw_results[1].kind = "error"
  /\ tasks[batch[1]].status = "failed"
  /\ sem_value = 0

\* C37: a Handoff reassigns a task only before it starts running: draining
\* a Handoff that names a task which is in_progress, completed or failed
\* leaves that task's assigned_agent and messages as they were.
C37_HandoffOnlyBeforeRunning ==
  [][\A t \in TaskIds :
       (Drained /\ NamesActiveTask(Taken, t) /\ tasks[t].status # "pending")
         => /\ tasks'[t].assigned_agent = tasks[t].assigned_agent
            /\ tasks'[t].messages = tasks[t].messages]_vars

\* The coroutine at position i has entered execute_task_async.
Started(i) == pc[i] \in {"running", "done"}

\* C39: with process_messages draining during execute_parallel, the callback
\* a coroutine awaits is the one of the agent its task is assigned to in the
\* step in which the task becomes in_progress, so a Handoff drained while
\* the task waits for a slot or for its dependencies decides which callback
\* runs; once the task has started, no step, a drained Handoff included,
\* changes the callback the coroutine awaits or starts the task again.
C39_CallbackOfAgentAtStart ==
  [][\A i \in Positions :
       /\ (~Started(i) /\ pc'[i] \in {"running", "done"})
            => /\ tasks[batch[i]].assigned_agent \in agent_callbacks
               /\ callback'[i] = tasks[batch[i]].assigned_agent
               /\ tasks'[batch[i]].assigned_agent = tasks[batch[i]].assigned_agent
       /\ ~Started(i) => callback[i] = "none"
       /\ Started(i)
            => /\ pc'[i] \in {"running", "done"}
               /\ callback'[i] = callback[i]
               /\ tasks'[batch[i]].started_at = tasks[batch[i]].started_at]_vars

\* Task B was handed to QA while it waited and runs with QA's callback; task
\* A was handed to QA after it had started with the architect's callback.
C39_Witness ==
  /\ batch = <<"A", "B">>
  /\ pc = <<"done", "running">>
  /\ callback = <<"lead-architect", "qa-sentinel">>
  /\ tasks["A"].assigned_agent = "qa-sentinel"
  /\ tasks["B"].assigned_agent = "qa-sentinel"
  /\ Len(tasks["A"].messages) = 1 /\ Len(tasks["B"].messages) = 1
  /\ tasks["A"].started_at < tasks["B"].started_at

\* C38: in every reachable state every id in completed_tasks is the id of a
\* task whose status is "completed", and no step removes an id from
\* completed_tasks, whatever sequence of decompose_task, update_task_status and
\* execute_task_async (on a task that already ran, too) the caller makes.
C38_CompletedSetHoldsCompleted ==
  /\ [](\A t \in completed_tasks : tasks[t].status = "completed")
  /\ [][completed_tasks \subseteq completed_tasks']_vars

\* A step of decompose_task(task) with task.type = type: the call is the last
\* one made and no batch is started by the step or running during it.
DecomposeStep(type) ==
  /\ batch_state = "idle" /\ batch_state' = "idle"
  /\ o_last' = OCall("decompose_task", type, "returned")

HasStarted(t) == tasks[t].status # "pending"

\* C40: decompose_task of a feature gives the three subtasks arch ("A"), impl
\* ("B", after arch) and test ("C", after impl) and puts all three in
\* active_tasks, and of any other type gives none; and when the three are
\* given to execute_parallel as one batch, in any order, and no callback
\* raises, they are started, arch before impl before test.
C40_SubtasksStartInOrder ==
  /\ [][/\ DecomposeStep("feature")
             => /\ tasks' = [t \in TaskIds |-> Subtask(t)]
                /\ tasks'["A"].dependencies = {}
                /\ tasks'["B"].dependencies = {"A"}
                /\ tasks'["C"].dependencies = {"B"}
                /\ active_tasks' = active_tasks \cup TaskIds
        /\ \A type \in TaskTypes \ {"feature"} :
             DecomposeStep(type) => UNCHANGED <<tasks, active_tasks>>]_vars
  /\ [](batch \in FeatureOrders
          => /\ HasStarted("B")
                  => /\ HasStarted("A")
                     /\ tasks["A"].started_at < tasks["B"].started_at
             /\ HasStarted("C")
                  => /\ HasStarted("B")
                     /\ tasks["B"].started_at < tasks["C"].started_at)
  /\ (batch_state = "running" /\ batch \in FeatureOrders)
       ~> (SomeFailed \/ \A t \in TaskIds : HasStarted(t))

============================================================================
